---------------------------- MODULE Spec2Model ----------------------------
(***************************************************************************)
(* Model of client/python/src/users.py and client/python/src/basic.py:     *)
(* the mapping between domain objects (User, FollowRelationship) and graph *)
(* entities, the two batch write operations, and the two scripts' use of   *)
(* the driver and its sessions.                                            *)
(*                                                                         *)
(* Python values are tagged records [t, v]: t is the Python type, v the    *)
(* printed value, so that a datetime.date and a neo4j.time.Date holding    *)
(* the same calendar date are different values of the same day.            *)
(***************************************************************************)
EXTENDS Integers, Sequences, FiniteSets, TLC

VARIABLES
    nodes,      \* the store's nodes, in creation order: [label, props]
    edges,      \* the store's relationships: [type, start, end, props]
    call,       \* the last batch operation: its arguments and its outcome
    mapIn,      \* Entity Mapping: the object or property set handed in
    mapOut,     \* Entity Mapping: what the conversion produced
    script,     \* which script the process runs ("basic" / "users")
    pc,         \* the script's position
    driver,     \* "none" / "open" / "closed"
    session,    \* "none" / "open" / "closed"
    exc,        \* the exception in flight ("" when none)
    locals,     \* users.py main: created_users, created_relationships
    submitted,  \* queries submitted by the batch operation in progress
    batchOps,   \* names of the batch operations started, in order
    printed,    \* what the script printed, in order
    runs        \* how many times a script was started

vars == <<nodes, edges, call, mapIn, mapOut, script, pc, driver, session,
          exc, locals, submitted, batchOps, printed, runs>>

storeVars == <<nodes, edges, call>>
mapVars == <<mapIn, mapOut>>
scriptVars == <<script, pc, driver, session, exc, locals, submitted,
                batchOps, printed, runs>>

-----------------------------------------------------------------------------
(* Python values *)

None == [t |-> "None", v |-> ""]
Str(s) == [t |-> "str", v |-> s]
PyDate(d) == [t |-> "date", v |-> d]            \* datetime.date
NeoDate(d) == [t |-> "Date", v |-> d]           \* neo4j.time.Date
PyDateTime(d) == [t |-> "datetime", v |-> d]    \* datetime.datetime
NeoDateTime(d) == [t |-> "DateTime", v |-> d]   \* neo4j.time.DateTime

\* bool(x) as used by "x if cond else y"
Truthy(x) == ~(x.t = "None") /\ ~(x.t = "str" /\ x.v = "")

\* a == b in Python: the driver's temporal types compare equal to the
\* standard library's when they denote the same instant
PyEq(a, b) ==
    \/ a = b
    \/ {a.t, b.t} = {"date", "Date"} /\ a.v = b.v
    \/ {a.t, b.t} = {"datetime", "DateTime"} /\ a.v = b.v

\* the outcome of a call: a returned value or a raised exception
Return(x) == [ok |-> TRUE, val |-> x, err |-> ""]
Raise(e) == [ok |-> FALSE, val |-> None, err |-> e]

\* dict.get(key): None when the key is absent
Get(d, k) == IF k \in DOMAIN d THEN d[k] ELSE None

-----------------------------------------------------------------------------
(* Entity Mapping *)

Gender == ("MALE" :> "male") @@ ("FEMALE" :> "female") @@ ("OTHER" :> "other")

GenderCodes == {Gender[m] : m \in DOMAIN Gender}

GenderMember(code) == [t |-> "Gender", v |-> code]

\* Gender(value): the enum's lookup by value
GenderLookup(value) ==
    IF value.t = "str" /\ value.v \in GenderCodes
    THEN Return(GenderMember(value.v))
    ELSE Raise("ValueError")

User(user_id, name, birth_date, gender) ==
    [properties |-> [user_id |-> user_id, name |-> name,
                     birth_date |-> birth_date, gender |-> gender]]

\* Gender member's name ("FEMALE") for a code ("female")
GenderName(code) == CHOOSE m \in DOMAIN Gender : Gender[m] = code

\* as User._Properties.to_dict, with gender.name in place of gender.value
User_Properties_to_dict_name(self) ==
    [user_id |-> self.user_id,
     name |-> self.name,
     birth_date |-> self.birth_date,
     gender |-> IF Truthy(self.gender)
                THEN Str(GenderName(self.gender.v)) ELSE None]

User_Properties_to_dict(self) ==
    [user_id |-> self.user_id,
     name |-> self.name,
     birth_date |-> self.birth_date,
     gender |-> IF Truthy(self.gender) THEN Str(self.gender.v) ELSE None]

User_to_dict(self) ==
    [properties |-> User_Properties_to_dict(self.properties)]

\* dict(node): the property mapping of an entity
dict_(entity) == entity.props

\* as User.from_entity, with Gender(gender) not guarded by "if gender"
User_from_entity_unguarded(node) ==
    LET properties == dict_(node)
        birth_date == Get(properties, "birth_date")
        gender == Get(properties, "gender")
        g == GenderLookup(gender)
    IN  IF ~g.ok
        THEN Raise(g.err)
        ELSE Return(User(Get(properties, "user_id"),
                         Get(properties, "name"),
                         IF birth_date.t = "Date"
                         THEN PyDate(birth_date.v) ELSE None,
                         g.val))

User_from_entity(node) ==
    LET properties == dict_(node)
        birth_date == Get(properties, "birth_date")
        gender == Get(properties, "gender")
        g == IF Truthy(gender) THEN GenderLookup(gender) ELSE Return(None)
    IN  IF ~g.ok
        THEN Raise(g.err)
        ELSE Return(User(Get(properties, "user_id"),
                         Get(properties, "name"),
                         IF birth_date.t = "Date"
                         THEN PyDate(birth_date.v) ELSE None,
                         g.val))

FollowRelationship(relationship_id, start_node, end_node, since) ==
    [start_node |-> start_node,
     end_node |-> end_node,
     properties |-> [relationship_id |-> relationship_id, since |-> since]]

FollowRelationship_Properties_to_dict(self) ==
    [relationship_id |-> self.relationship_id, since |-> self.since]

FollowRelationship_to_dict(self) ==
    [start_user_id |-> self.start_node.properties.user_id,
     end_user_id |-> self.end_node.properties.user_id,
     properties |-> FollowRelationship_Properties_to_dict(self.properties)]

FollowRelationship_from_entity(relationship, start_node, end_node) ==
    LET properties == dict_(relationship)
    IN  FollowRelationship(Get(properties, "relationship_id"),
                           start_node, end_node,
                           Get(properties, "since"))

-----------------------------------------------------------------------------
(* The graph store, as the two queries of users.py use it *)

\* a parameter value as the store keeps it and the driver hands it back
ToStore(x) ==
    CASE x.t = "date" -> NeoDate(x.v)
      [] x.t = "datetime" -> NeoDateTime(x.v)
      [] OTHER -> x

\* SET e = map: the entity's properties become the map's non-null entries
SetProperties(map) ==
    [k \in {j \in DOMAIN map : map[j].t # "None"} |-> ToStore(map[k])]

\* MATCH (n:User {user_id: uid}): the ids of the nodes it binds
MatchUser(ns, uid) ==
    {i \in 1..Len(ns) : /\ ns[i].label = "User"
                        /\ uid.t # "None"
                        /\ Get(ns[i].props, "user_id") = uid}

\* as Cypher_create_users, with MERGE on user_id in place of CREATE
Cypher_merge_users(ns, users_dict) ==
    LET fresh == SelectSeq(users_dict,
                           LAMBDA d : MatchUser(ns, d.properties.user_id) = {})
        created == IF Len(fresh) = 0 THEN <<>>
                   ELSE [i \in 1..Len(fresh) |->
                            [label |-> "User",
                             props |-> SetProperties(fresh[i].properties)]]
    IN  [nodes |-> ns \o created,
         records |-> [i \in 1..Len(users_dict) |->
                         [u |-> [label |-> "User",
                                 props |-> SetProperties(
                                               users_dict[i].properties)]]]]

\* UNWIND $users AS user CREATE (u:User) SET u = user.properties RETURN u
Cypher_create_users(ns, users_dict) ==
    LET created == [i \in 1..Len(users_dict) |->
                       [label |-> "User",
                        props |-> SetProperties(users_dict[i].properties)]]
    IN  [nodes |-> ns \o created,
         records |-> [i \in 1..Len(users_dict) |-> [u |-> created[i]]]]

RECURSIVE Ascending(_)
Ascending(S) ==
    IF S = {} THEN <<>>
    ELSE LET m == CHOOSE x \in S : \A y \in S : x <= y
         IN  <<m>> \o Ascending(S \ {m})

\* as MatchPairs, with the two bound nodes exchanged
MatchPairs_swapped(S, E) ==
    LET ss == Ascending(S)
        ee == Ascending(E)
        n == Len(ee)
    IN  IF Len(ss) = 0 \/ n = 0 THEN <<>>
        ELSE [k \in 1..(Len(ss) * n) |->
                 [start |-> ee[((k - 1) % n) + 1],
                  end |-> ss[((k - 1) \div n) + 1]]]

\* the rows two consecutive MATCH clauses produce for one unwound entry
MatchPairs(S, E) ==
    LET ss == Ascending(S)
        ee == Ascending(E)
        n == Len(ee)
    IN  IF Len(ss) = 0 \/ n = 0 THEN <<>>
        ELSE [k \in 1..(Len(ss) * n) |->
                 [start |-> ss[((k - 1) \div n) + 1],
                  end |-> ee[((k - 1) % n) + 1]]]

RECURSIVE FollowRows(_, _, _)
FollowRows(ns, follows, i) ==
    IF i > Len(follows) THEN <<>>
    ELSE LET ps == MatchPairs(MatchUser(ns, follows[i].start_user_id),
                              MatchUser(ns, follows[i].end_user_id))
             rows == IF Len(ps) = 0 THEN <<>>
                     ELSE [k \in 1..Len(ps) |->
                              [follow |-> follows[i],
                               start |-> ps[k].start, end |-> ps[k].end]]
         IN  rows \o FollowRows(ns, follows, i + 1)

\* UNWIND $follow_relationships AS follow
\* MATCH (start:User {user_id: follow.start_user_id})
\* MATCH (end:User {user_id: follow.end_user_id})
\* CREATE (start) -[f:FOLLOWS]-> (end) SET f = follow.properties
\* RETURN f, start, end
Cypher_create_follows(ns, es, follows) ==
    LET rows == FollowRows(ns, follows, 1)
        created == IF Len(rows) = 0 THEN <<>>
                   ELSE [k \in 1..Len(rows) |->
                            [type |-> "FOLLOWS",
                             start |-> rows[k].start,
                             end |-> rows[k].end,
                             props |-> SetProperties(rows[k].follow.properties)]]
    IN  [nodes |-> ns,
         edges |-> es \o created,
         records |-> IF Len(rows) = 0 THEN <<>>
                     ELSE [k \in 1..Len(rows) |->
                              [f |-> created[k],
                               start |-> ns[rows[k].start],
                               end |-> ns[rows[k].end]]]]

-----------------------------------------------------------------------------
(* Batch Write Operations *)

\* the first exception a sequence of outcomes raises, or the list of values
Collect(outs) ==
    IF \E i \in 1..Len(outs) : ~outs[i].ok
    THEN Raise(outs[CHOOSE i \in 1..Len(outs) :
                       /\ ~outs[i].ok
                       /\ \A j \in 1..(i - 1) : outs[j].ok].err)
    ELSE [ok |-> TRUE, val |-> [i \in 1..Len(outs) |-> outs[i].val], err |-> ""]

\* the loop of create_user_nodes over the records of the result
DecodeUsers(records) ==
    Collect([i \in 1..Len(records) |-> User_from_entity(records[i].u)])

\* the loop of create_follow_relationships over the records of the result
DecodeFollows(records) ==
    LET s == [i \in 1..Len(records) |-> User_from_entity(records[i].start)]
        e == [i \in 1..Len(records) |-> User_from_entity(records[i].end)]
    IN  Collect([i \in 1..Len(records) |->
                    IF ~s[i].ok THEN s[i]
                    ELSE IF ~e[i].ok THEN e[i]
                    ELSE Return(FollowRelationship_from_entity(
                                    records[i].f, s[i].val, e[i].val))])

\* create_user_nodes on a store that answers: the store after, and the outcome
create_user_nodes(ns, users) ==
    LET users_dict == [i \in 1..Len(users) |-> User_to_dict(users[i])]
        result == Cypher_create_users(ns, users_dict)
    IN  [nodes |-> result.nodes, out |-> DecodeUsers(result.records)]

\* create_follow_relationships on a store that answers
create_follow_relationships(ns, es, follow_relationships) ==
    LET relationships_dict ==
            [i \in 1..Len(follow_relationships) |->
                FollowRelationship_to_dict(follow_relationships[i])]
        result == Cypher_create_follows(ns, es, relationships_dict)
    IN  [nodes |-> result.nodes, edges |-> result.edges,
         out |-> DecodeFollows(result.records)]

-----------------------------------------------------------------------------
(* Batch operations against one store, called with arbitrary batches *)

MaxNodes == 3
MaxEdges == 2
MaxUserBatch == 3
MaxRelBatch == 2

\* the users main() builds
Alice == User(Str("u1"), Str("Alice"), None, None)
Bob == User(Str("u2"), Str("Bob"), PyDate("1990-01-02"), None)
Charlie == User(Str("u3"), Str("Charlie"), PyDate("2000-10-11"),
                GenderMember(Gender["FEMALE"]))

SampleUsers == {Alice, Bob, Charlie}

\* the relationships main() builds: 0 -> 1, 1 -> 2, 2 -> 1
SampleFollows ==
    {FollowRelationship(Str("r1"), Alice, Bob,
                        PyDateTime("2024-01-02T00:00:00")),
     FollowRelationship(Str("r2"), Bob, Charlie,
                        PyDateTime("2025-03-04T00:00:00")),
     FollowRelationship(Str("r3"), Charlie, Bob,
                        PyDateTime("2026-05-06T00:00:00"))}

Min(a, b) == IF a <= b THEN a ELSE b

SeqsUpTo(S, n) == UNION {[1..k -> S] : k \in 1..n}

NoCall == [op |-> "", input |-> <<>>, out |-> Return(<<>>)]

NoInput == [kind |-> "", val |-> None]
NoOutput == [via |-> "", dict |-> None, out |-> Return(None)]

MapIdle == /\ mapIn = NoInput
           /\ mapOut = NoOutput

\* a dict with no key
EmptyDict == [k \in {} |-> None]

\* d, with key k bound to x
Bind(d, k, x) == [j \in DOMAIN d \cup {k} |-> IF j = k THEN x ELSE d[j]]

ScriptIdle == /\ script = ""
              /\ pc = "idle"
              /\ driver = "none"
              /\ session = "none"
              /\ exc = ""
              /\ locals = EmptyDict
              /\ submitted = 0
              /\ batchOps = <<>>
              /\ printed = <<>>
              /\ runs = 0

InitStore == /\ nodes = <<>>
             /\ edges = <<>>
             /\ call = NoCall
             /\ MapIdle
             /\ ScriptIdle

\* a call of create_user_nodes that returns or raises in its decoding loop
\* (a call the store fails is followed statement by statement in SpecMain)
CreateUserNodes ==
    \E users \in SeqsUpTo(SampleUsers,
                          Min(MaxUserBatch, MaxNodes - Len(nodes))) :
        /\ Len(nodes) + Len(users) <= MaxNodes
        /\ LET r == create_user_nodes(nodes, users)
           IN  /\ nodes' = r.nodes
               /\ call' = [op |-> "create_user_nodes", input |-> users,
                           out |-> r.out]
        /\ UNCHANGED <<edges, mapVars, scriptVars>>

\* a call of create_follow_relationships that returns or raises in its
\* decoding loop
CreateFollowRelationships ==
    \E follow_relationships \in SeqsUpTo(SampleFollows, MaxRelBatch) :
        LET r == create_follow_relationships(nodes, edges, follow_relationships)
        IN  /\ Len(r.edges) <= MaxEdges
            /\ nodes' = r.nodes
            /\ edges' = r.edges
            /\ call' = [op |-> "create_follow_relationships",
                        input |-> follow_relationships, out |-> r.out]
            /\ UNCHANGED <<mapVars, scriptVars>>

NextStore == CreateUserNodes \/ CreateFollowRelationships

SpecStore == InitStore /\ [][NextStore]_vars

-----------------------------------------------------------------------------
(* Properties of the batch operations *)

UserIdOf(u) == u.properties.user_id

\* no User node of the store ns carries one of the entry's two user_ids
MissingEndpoint(ns, rel) ==
    \/ MatchUser(ns, UserIdOf(rel.start_node)) = {}
    \/ MatchUser(ns, UserIdOf(rel.end_node)) = {}

ReturnedFollows == call'.op = "create_follow_relationships" /\ call'.out.ok

ReturnedUsers == call'.op = "create_user_nodes" /\ call'.out.ok

NewEdgeIds == (Len(edges) + 1)..Len(edges')

\* C1: whenever create_follow_relationships returns for a batch with an
\* entry whose start or end user_id has no User node in the store, that
\* entry has no result row and no FOLLOWS edge, and the returned list is
\* strictly shorter than the input list (empty for a single-entry batch).
C1_MissingEndpointShortensResult ==
    [][(ReturnedFollows /\ \E i \in 1..Len(call'.input) :
                              MissingEndpoint(nodes, call'.input[i]))
       => /\ Len(call'.out.val) < Len(call'.input)
          /\ Len(call'.input) = 1 => Len(call'.out.val) = 0
          /\ \A i \in 1..Len(call'.input) :
                MissingEndpoint(nodes, call'.input[i]) =>
                    /\ \A k \in 1..Len(call'.out.val) :
                          call'.out.val[k].properties.relationship_id
                              # call'.input[i].properties.relationship_id
                    /\ \A k \in NewEdgeIds :
                          Get(edges'[k].props, "relationship_id")
                              # call'.input[i].properties.relationship_id]_vars

\* C2: whenever create_follow_relationships returns for the single entry
\* A -> B with both A and B created in the store, it returns exactly one
\* FollowRelationship, from A's user_id to B's user_id, with the input's
\* since, and the store has exactly one more FOLLOWS edge.
C2_SingleFollowReturnsOne ==
    [][(/\ ReturnedFollows
        /\ Len(call'.input) = 1
        /\ ~MissingEndpoint(nodes, call'.input[1]))
       => /\ Len(call'.out.val) = 1
          /\ UserIdOf(call'.out.val[1].start_node)
                = UserIdOf(call'.input[1].start_node)
          /\ UserIdOf(call'.out.val[1].end_node)
                = UserIdOf(call'.input[1].end_node)
          /\ PyEq(call'.out.val[1].properties.since,
                  call'.input[1].properties.since)
          /\ Len(edges') = Len(edges) + 1]_vars

DistinctUserIds(users) ==
    \A i, j \in 1..Len(users) :
        i # j => UserIdOf(users[i]) # UserIdOf(users[j])

\* C3: whenever create_user_nodes returns for N users with pairwise distinct
\* user_ids, the store has exactly N more nodes, all labelled User, the
\* nodes it had are untouched, and the N returned Users carry exactly the
\* input's user_ids.
C3_DistinctBatchCreatesAll ==
    [][(ReturnedUsers /\ DistinctUserIds(call'.input))
       => /\ Len(nodes') = Len(nodes) + Len(call'.input)
          /\ SubSeq(nodes', 1, Len(nodes)) = nodes
          /\ \A k \in (Len(nodes) + 1)..Len(nodes') : nodes'[k].label = "User"
          /\ Len(call'.out.val) = Len(call'.input)
          /\ {UserIdOf(call'.out.val[k]) : k \in 1..Len(call'.out.val)}
                = {UserIdOf(call'.input[i]) : i \in 1..Len(call'.input)}]_vars

\* a batch of 3 users with distinct ids was created and returned
C3_Witness ==
    /\ call.op = "create_user_nodes"
    /\ call.out.ok
    /\ Len(call.input) = 3
    /\ DistinctUserIds(call.input)
    /\ Len(call.out.val) = 3
    /\ Len(nodes) = 3

\* C9: every step leaves the nodes and edges it had in place;
\* every edge a step adds is a FOLLOWS edge of an entry of the batch, from
\* a User node with the entry's start_user_id to a User node with its
\* end_user_id, both in the store before the step; and
\* create_follow_relationships adds no node.
C9_EdgesJoinExistingEndpoints ==
    [][/\ SubSeq(edges', 1, Len(edges)) = edges
       /\ call'.op = "create_follow_relationships" => nodes' = nodes
       /\ \A k \in NewEdgeIds :
             /\ call'.op = "create_follow_relationships"
             /\ edges'[k].type = "FOLLOWS"
             /\ edges'[k].start \in 1..Len(nodes)
             /\ edges'[k].end \in 1..Len(nodes)
             /\ nodes[edges'[k].start].label = "User"
             /\ nodes[edges'[k].end].label = "User"
             /\ \E i \in 1..Len(call'.input) :
                   /\ call'.input[i].properties.relationship_id
                         = Get(edges'[k].props, "relationship_id")
                   /\ Get(nodes[edges'[k].start].props, "user_id")
                         = UserIdOf(call'.input[i].start_node)
                   /\ Get(nodes[edges'[k].end].props, "user_id")
                         = UserIdOf(call'.input[i].end_node)]_vars

\* a batch with one entry whose endpoints exist and one whose do not:
\* the first produced an edge, the second none
C9_Witness ==
    /\ call.op = "create_follow_relationships"
    /\ call.out.ok
    /\ Len(call.input) = 2
    /\ Len(call.out.val) = 1
    /\ Len(edges) >= 1
    /\ \E i \in 1..2 : MissingEndpoint(nodes, call.input[i])

-----------------------------------------------------------------------------
(* Entity Mapping, applied to objects and property sets of every shape *)

StoreIdle == /\ nodes = <<>>
             /\ edges = <<>>
             /\ call = NoCall

Dates == {"1990-01-02", "2000-10-11"}

\* every User the constructor accepts over a small vocabulary
AllUsers ==
    {User(Str(i), Str(n), b, g) :
        i \in {"u1", "u2"}, n \in {"Alice", "Bob"},
        b \in {None} \cup {PyDate(d) : d \in Dates},
        g \in {None} \cup {GenderMember(c) : c \in GenderCodes}}

Absent == [t |-> "absent", v |-> ""]

\* the mapping with the keys of f whose value is not Absent
Present(f) == [k \in {j \in DOMAIN f : f[j] # Absent} |-> f[k]]

\* gender codes a node may carry: the enum's, and others
CodeChoices == GenderCodes \cup {"unknown", "FEMALE", ""}

\* User nodes with any of the four properties missing and any gender code
AllUserNodes ==
    {[label |-> "User", props |-> Present(f)] :
        f \in [user_id : {Absent, Str("u1")},
               name : {Absent, Str("Alice")},
               birth_date : {Absent, NeoDate("1990-01-02")},
               gender : {Absent} \cup {Str(c) : c \in CodeChoices}]}

\* FOLLOWS relationships with any of the two properties missing
AllFollowEdges ==
    {[type |-> "FOLLOWS", start |-> 1, end |-> 2, props |-> Present(f)] :
        f \in [relationship_id : {Absent, Str("r1")},
               since : {Absent, NeoDateTime("2024-01-02T00:00:00")}]}

InitMap == /\ mapIn \in [kind : {"User"}, val : AllUsers]
                    \cup [kind : {"Node"}, val : AllUserNodes]
                    \cup [kind : {"Relationship"}, val : AllFollowEdges]
           /\ mapOut = NoOutput
           /\ StoreIdle
           /\ ScriptIdle

\* User.from_entity applied to the mapping User.to_dict produced
RoundTripDirect ==
    /\ mapIn.kind = "User"
    /\ mapOut.via = ""
    /\ LET d == User_to_dict(mapIn.val)
       IN  mapOut' = [via |-> "direct", dict |-> d,
                      out |-> User_from_entity([label |-> "User",
                                                props |-> d.properties])]
    /\ UNCHANGED <<mapIn, storeVars, scriptVars>>

\* User.from_entity applied to the node the store returns for what
\* User.to_dict produced, as in create_user_nodes
RoundTripStore ==
    /\ mapIn.kind = "User"
    /\ mapOut.via = ""
    /\ LET d == User_to_dict(mapIn.val)
           u == Cypher_create_users(<<>>, <<d>>).records[1].u
       IN  mapOut' = [via |-> "store", dict |-> d, out |-> User_from_entity(u)]
    /\ UNCHANGED <<mapIn, storeVars, scriptVars>>

\* User.from_entity applied to a node
DecodeUser ==
    /\ mapIn.kind = "Node"
    /\ mapOut.via = ""
    /\ mapOut' = [via |-> "decode", dict |-> None,
                  out |-> User_from_entity(mapIn.val)]
    /\ UNCHANGED <<mapIn, storeVars, scriptVars>>

\* FollowRelationship.from_entity applied to a relationship
DecodeFollow ==
    /\ mapIn.kind = "Relationship"
    /\ mapOut.via = ""
    /\ mapOut' = [via |-> "decode", dict |-> None,
                  out |-> Return(FollowRelationship_from_entity(
                                     mapIn.val, Alice, Bob))]
    /\ UNCHANGED <<mapIn, storeVars, scriptVars>>

NextMap == RoundTripDirect \/ RoundTripStore \/ DecodeUser \/ DecodeFollow

SpecMap == InitMap /\ [][NextMap]_vars

-----------------------------------------------------------------------------
(* Properties of the Entity Mapping *)

Populated(u) ==
    /\ u.properties.birth_date # None
    /\ u.properties.gender # None

\* the conversion returned a User with the four fields of the original: ids
\* and names equal, the birth_date a datetime.date of the same day (or None
\* for None), the gender the same member (or None for None)
Restored(u, out) ==
    /\ out.ok
    /\ out.val.properties.user_id = u.properties.user_id
    /\ out.val.properties.name = u.properties.name
    /\ out.val.properties.birth_date = u.properties.birth_date
    /\ out.val.properties.gender = u.properties.gender

\* to_dict wrote a field the User has unset as null, and a set gender as
\* its code
EmitsNullForUnset(u, d) ==
    /\ u.properties.birth_date = None => d.properties.birth_date = None
    /\ u.properties.gender = None => d.properties.gender = None
    /\ u.properties.gender # None
          => d.properties.gender = Str(u.properties.gender.v)

\* C4: User.from_entity applied to what User.to_dict produced for a User
\* with all four fields set returns a User with the same four fields.
C4_DirectRoundTripPopulated ==
    (mapOut.via = "direct" /\ Populated(mapIn.val))
        => Restored(mapIn.val, mapOut.out)

\* C4 (amended): User.from_entity applied to the node the store returns for
\* what User.to_dict produced for a User with all four fields set returns a
\* User with the same four fields; the gender is written as its code.
C4_StoreRoundTripPopulated ==
    (mapOut.via = "store" /\ Populated(mapIn.val))
        => /\ Restored(mapIn.val, mapOut.out)
           /\ EmitsNullForUnset(mapIn.val, mapOut.dict)

\* a User with a birth_date and gender FEMALE went through the store
C4_Witness ==
    /\ mapOut.via = "store"
    /\ Populated(mapIn.val)
    /\ mapIn.val.properties.gender = GenderMember("female")
    /\ mapOut.out.ok
    /\ mapOut.out.val.properties.birth_date.t = "date"

\* C5: for a User with birth_date or gender unset, User.to_dict writes null
\* for each unset field and User.from_entity applied to what it produced
\* returns, without error, a User with None in exactly the unset fields
\* and the other fields unchanged.
C5_DirectRoundTripUnset ==
    (mapOut.via = "direct" /\ ~Populated(mapIn.val))
        => /\ EmitsNullForUnset(mapIn.val, mapOut.dict)
           /\ Restored(mapIn.val, mapOut.out)

\* C5 (amended): the same, with User.from_entity applied to the node the
\* store returns for what User.to_dict produced.
C5_StoreRoundTripUnset ==
    (mapOut.via = "store" /\ ~Populated(mapIn.val))
        => /\ EmitsNullForUnset(mapIn.val, mapOut.dict)
           /\ Restored(mapIn.val, mapOut.out)

\* a User with a birth_date and no gender went through the store
C5_Witness ==
    /\ mapOut.via = "store"
    /\ mapIn.val.properties.birth_date # None
    /\ mapIn.val.properties.gender = None
    /\ mapOut.dict.properties.gender = None
    /\ mapOut.out.ok
    /\ mapOut.out.val.properties.gender = None

\* C6: User.from_entity applied to a node whose gender is a code outside
\* {male, female, other} fails with InvalidDataError and returns no User.
C6_UnknownGenderIsInvalidData ==
    (/\ mapOut.via = "decode"
     /\ mapIn.kind = "Node"
     /\ "gender" \in DOMAIN mapIn.val.props
     /\ mapIn.val.props.gender.v \notin GenderCodes)
        => /\ ~mapOut.out.ok
           /\ mapOut.out.err = "InvalidDataError"

\* C7: User.from_entity applied to a node without user_id or name, and
\* FollowRelationship.from_entity applied to a relationship without
\* relationship_id or since, fail with MissingFieldError; no object with a
\* null required field is returned.
C7_MissingFieldIsError ==
    /\ (/\ mapOut.via = "decode"
        /\ mapIn.kind = "Node"
        /\ {"user_id", "name"} \ DOMAIN mapIn.val.props # {})
          => (~mapOut.out.ok /\ mapOut.out.err = "MissingFieldError")
    /\ (/\ mapOut.via = "decode"
        /\ mapIn.kind = "Relationship"
        /\ {"relationship_id", "since"} \ DOMAIN mapIn.val.props # {})
          => (~mapOut.out.ok /\ mapOut.out.err = "MissingFieldError")
    /\ (mapOut.via = "decode" /\ mapIn.kind = "Node" /\ mapOut.out.ok)
          => /\ mapOut.out.val.properties.user_id # None
             /\ mapOut.out.val.properties.name # None
    /\ (mapOut.via = "decode" /\ mapIn.kind = "Relationship" /\ mapOut.out.ok)
          => /\ mapOut.out.val.properties.relationship_id # None
             /\ mapOut.out.val.properties.since # None

-----------------------------------------------------------------------------
(* The two scripts, statement by statement, against one store *)

MaxRuns == 2

\* a store-side failure (connection lost, query rejected) raised by
\* session.run or by the iteration of its result
StoreErrors == {"ServiceUnavailable"}

Scripts == {"basic", "users"}

\* str(uuid.uuid4()): an id no earlier call returned
Uuid(k) == Str("uuid-" \o ToString(runs) \o "-" \o ToString(k))

Process(s) == /\ script = s
              /\ pc = "start"
              /\ driver = "none"
              /\ session = "none"
              /\ exc = ""
              /\ locals = EmptyDict
              /\ submitted = 0
              /\ batchOps = <<>>
              /\ printed = <<>>

InitMain == /\ StoreIdle
            /\ MapIdle
            /\ runs = 1
            /\ \E s \in Scripts : Process(s)

\* the script is started again; the store keeps what the last run left
Rerun ==
    /\ pc = "exit"
    /\ runs < MaxRuns
    /\ runs' = runs + 1
    /\ script' \in Scripts
    /\ pc' = "start"
    /\ driver' = "none"
    /\ session' = "none"
    /\ exc' = ""
    /\ locals' = EmptyDict
    /\ submitted' = 0
    /\ batchOps' = <<>>
    /\ printed' = <<>>
    /\ UNCHANGED <<storeVars, mapVars>>

At(s, p) == script = s /\ pc = p

\* users.py main, lines 192-206: the driver is opened and the users built
Main_OpenDriver ==
    /\ At("users", "start")
    /\ driver' = "open"
    /\ locals' = Bind(locals, "users",
                      <<User(Uuid(1), Str("Alice"), None, None),
                        User(Uuid(2), Str("Bob"), PyDate("1990-01-02"), None),
                        User(Uuid(3), Str("Charlie"), PyDate("2000-10-11"),
                             GenderMember(Gender["FEMALE"]))>>)
    /\ pc' = "cun_session"
    /\ UNCHANGED <<storeVars, mapVars, script, session, exc, submitted,
                   batchOps, printed, runs>>

\* create_user_nodes, line 136: with driver.session() as session
CUN_OpenSession ==
    /\ At("users", "cun_session")
    /\ session' = "open"
    /\ batchOps' = Append(batchOps, "create_user_nodes")
    /\ submitted' = 0
    /\ pc' = "cun_run"
    /\ UNCHANGED <<storeVars, mapVars, script, driver, exc, locals, printed,
                   runs>>

\* as CUN_Run, with a failed query submitted a second time
CUN_Run_retry ==
    /\ At("users", "cun_run")
    /\ submitted' = submitted + 1
    /\ \/ /\ locals' = Bind(locals, "result", create_user_nodes(nodes, locals.users))
          /\ pc' = "cun_iter"
          /\ exc' = exc
       \/ \E e \in StoreErrors :
              /\ exc' = IF submitted = 0 THEN exc ELSE e
              /\ pc' = IF submitted = 0 THEN "cun_run" ELSE "cun_exit"
              /\ locals' = locals
    /\ UNCHANGED <<storeVars, mapVars, script, driver, session, batchOps,
                   printed, runs>>

\* create_user_nodes, lines 138-149: the query is submitted once; the call
\* raises, or returns a result whose records are yet to be fetched
CUN_Run ==
    /\ At("users", "cun_run")
    /\ submitted' = submitted + 1
    /\ \/ /\ locals' = Bind(locals, "result", create_user_nodes(nodes, locals.users))
          /\ pc' = "cun_iter"
          /\ exc' = exc
       \/ \E e \in StoreErrors :
              /\ exc' = e
              /\ pc' = "cun_exit"
              /\ locals' = locals
    /\ UNCHANGED <<storeVars, mapVars, script, driver, session, batchOps,
                   printed, runs>>

\* create_user_nodes, lines 150-155: the records are fetched and decoded;
\* a failure while fetching leaves the write done or undone
CUN_Iterate ==
    /\ At("users", "cun_iter")
    /\ \/ /\ nodes' = locals.result.nodes
          /\ IF locals.result.out.ok
             THEN /\ locals' = Bind(locals, "created_users",
                                    locals.result.out.val)
                  /\ exc' = exc
             ELSE /\ exc' = locals.result.out.err
                  /\ locals' = locals
       \/ \E e \in StoreErrors :
              /\ nodes' \in {nodes, locals.result.nodes}
              /\ exc' = e
              /\ locals' = locals
    /\ pc' = "cun_exit"
    /\ UNCHANGED <<edges, call, mapVars, script, driver, session, submitted,
                   batchOps, printed, runs>>

\* create_user_nodes, line 136: the with block is left, returning or raising
CUN_CloseSession ==
    /\ At("users", "cun_exit")
    /\ session' = "closed"
    /\ pc' = IF exc = "" THEN "build_follows" ELSE "driver_exit"
    /\ UNCHANGED <<storeVars, mapVars, script, driver, exc, locals, submitted,
                   batchOps, printed, runs>>

\* users.py main, lines 212-230: created_users[0..2] are indexed
Main_BuildFollows ==
    /\ At("users", "build_follows")
    /\ LET cu == locals.created_users
       IN  IF Len(cu) < 3
           THEN /\ exc' = "IndexError"
                /\ pc' = "driver_exit"
                /\ locals' = locals
           ELSE /\ locals' = Bind(locals, "follow_relationships",
                      <<FollowRelationship(Uuid(4), cu[1], cu[2],
                                           PyDateTime("2024-01-02T00:00:00")),
                        FollowRelationship(Uuid(5), cu[2], cu[3],
                                           PyDateTime("2025-03-04T00:00:00")),
                        FollowRelationship(Uuid(6), cu[3], cu[2],
                                           PyDateTime("2026-05-06T00:00:00"))>>)
                /\ pc' = "cfr_session"
                /\ exc' = exc
    /\ UNCHANGED <<storeVars, mapVars, script, driver, session, submitted,
                   batchOps, printed, runs>>

\* create_follow_relationships, line 159
CFR_OpenSession ==
    /\ At("users", "cfr_session")
    /\ session' = "open"
    /\ batchOps' = Append(batchOps, "create_follow_relationships")
    /\ submitted' = 0
    /\ pc' = "cfr_run"
    /\ UNCHANGED <<storeVars, mapVars, script, driver, exc, locals, printed,
                   runs>>

\* create_follow_relationships, lines 162-174
CFR_Run ==
    /\ At("users", "cfr_run")
    /\ submitted' = submitted + 1
    /\ \/ /\ locals' = Bind(locals, "result",
                            create_follow_relationships(
                                nodes, edges, locals.follow_relationships))
          /\ pc' = "cfr_iter"
          /\ exc' = exc
       \/ \E e \in StoreErrors :
              /\ exc' = e
              /\ pc' = "cfr_exit"
              /\ locals' = locals
    /\ UNCHANGED <<storeVars, mapVars, script, driver, session, batchOps,
                   printed, runs>>

\* create_follow_relationships, lines 175-188
CFR_Iterate ==
    /\ At("users", "cfr_iter")
    /\ \/ /\ edges' = locals.result.edges
          /\ IF locals.result.out.ok
             THEN /\ locals' = Bind(locals, "created_relationships",
                                    locals.result.out.val)
                  /\ exc' = exc
             ELSE /\ exc' = locals.result.out.err
                  /\ locals' = locals
       \/ \E e \in StoreErrors :
              /\ edges' \in {edges, locals.result.edges}
              /\ exc' = e
              /\ locals' = locals
    /\ pc' = "cfr_exit"
    /\ UNCHANGED <<nodes, call, mapVars, script, driver, session, submitted,
                   batchOps, printed, runs>>

\* create_follow_relationships, line 159: the with block is left
CFR_CloseSession ==
    /\ At("users", "cfr_exit")
    /\ session' = "closed"
    /\ pc' = "driver_exit"
    /\ UNCHANGED <<storeVars, mapVars, script, driver, exc, locals, submitted,
                   batchOps, printed, runs>>

\* users.py main, line 192: the with block of the driver is left
Main_CloseDriver ==
    /\ At("users", "driver_exit")
    /\ driver' = "closed"
    /\ pc' = IF exc = "" THEN "exit" ELSE "except"
    /\ UNCHANGED <<storeVars, mapVars, script, session, exc, locals, submitted,
                   batchOps, printed, runs>>

\* users.py main, lines 235-236: except Exception as e: print(e)
Main_Except ==
    /\ At("users", "except")
    /\ printed' = Append(printed, exc)
    /\ exc' = ""
    /\ pc' = "exit"
    /\ UNCHANGED <<storeVars, mapVars, script, driver, session, locals,
                   submitted, batchOps, runs>>

\* basic.py main, line 5
Basic_OpenDriver ==
    /\ At("basic", "start")
    /\ driver' = "open"
    /\ pc' = "b_session"
    /\ UNCHANGED <<storeVars, mapVars, script, session, exc, locals, submitted,
                   batchOps, printed, runs>>

\* basic.py main, line 6
Basic_OpenSession ==
    /\ At("basic", "b_session")
    /\ session' = "open"
    /\ pc' = "b_create"
    /\ UNCHANGED <<storeVars, mapVars, script, driver, exc, locals, submitted,
                   batchOps, printed, runs>>

\* an exception nothing catches ends the process where it stands
Uncaught(e) ==
    /\ exc' = e
    /\ pc' = "exit"
    /\ printed' = printed

\* CREATE (n): one node without label or property
Cypher_create_node(ns) == Append(ns, [label |-> "", props |-> EmptyDict])

\* basic.py main, lines 9-11: CREATE (n), consume, print the counters
Basic_Create ==
    /\ At("basic", "b_create")
    /\ \/ /\ nodes' = Cypher_create_node(nodes)
          /\ printed' = Append(printed, "nodes_created=1")
          /\ pc' = "b_match"
          /\ exc' = exc
       \/ \E e \in StoreErrors :
              /\ nodes' \in {nodes, Cypher_create_node(nodes)}
              /\ Uncaught(e)
    /\ UNCHANGED <<edges, call, mapVars, script, driver, session, locals,
                   submitted, batchOps, runs>>

\* basic.py main, lines 14-15: MATCH (n) RETURN n, print the records
Basic_Match ==
    /\ At("basic", "b_match")
    /\ \/ /\ printed' = Append(printed, "records=" \o ToString(Len(nodes)))
          /\ pc' = "b_delete"
          /\ exc' = exc
       \/ \E e \in StoreErrors : Uncaught(e)
    /\ UNCHANGED <<storeVars, mapVars, script, driver, session, locals,
                   submitted, batchOps, runs>>

\* basic.py main, lines 18-20: MATCH (n) DETACH DELETE n, consume, print
Basic_Delete ==
    /\ At("basic", "b_delete")
    /\ \/ /\ nodes' = <<>>
          /\ edges' = <<>>
          /\ printed' = Append(printed,
                               "nodes_deleted=" \o ToString(Len(nodes)))
          /\ pc' = "b_close_session"
          /\ exc' = exc
       \/ \E e \in StoreErrors :
              /\ \/ nodes' = nodes /\ edges' = edges
                 \/ nodes' = <<>> /\ edges' = <<>>
              /\ Uncaught(e)
    /\ UNCHANGED <<call, mapVars, script, driver, session, locals, submitted,
                   batchOps, runs>>

\* basic.py main, line 23
Basic_CloseSession ==
    /\ At("basic", "b_close_session")
    /\ session' = "closed"
    /\ pc' = "b_close_driver"
    /\ UNCHANGED <<storeVars, mapVars, script, driver, exc, locals, submitted,
                   batchOps, printed, runs>>

\* basic.py main, line 24
Basic_CloseDriver ==
    /\ At("basic", "b_close_driver")
    /\ driver' = "closed"
    /\ pc' = "exit"
    /\ UNCHANGED <<storeVars, mapVars, script, session, exc, locals, submitted,
                   batchOps, printed, runs>>

NextMain ==
    \/ Rerun
    \/ Main_OpenDriver
    \/ CUN_OpenSession
    \/ CUN_Run
    \/ CUN_Iterate
    \/ CUN_CloseSession
    \/ Main_BuildFollows
    \/ CFR_OpenSession
    \/ CFR_Run
    \/ CFR_Iterate
    \/ CFR_CloseSession
    \/ Main_CloseDriver
    \/ Main_Except
    \/ Basic_OpenDriver
    \/ Basic_OpenSession
    \/ Basic_Create
    \/ Basic_Match
    \/ Basic_Delete
    \/ Basic_CloseSession
    \/ Basic_CloseDriver

SpecMain == InitMain /\ [][NextMain]_vars

-----------------------------------------------------------------------------
(* Properties of the scripts *)

\* C8: when a script has ended, on any path, no session and no driver it
\* opened is still open.
C8_NothingOpenAtExit ==
    pc = "exit" => (session # "open" /\ driver # "open")

Assigned(name) == name \in DOMAIN locals

PrintedOneStoreError == Len(printed) = 1 /\ printed[1] \in StoreErrors

\* C10: in users.py, a batch operation submits its query at most once; an
\* exception in flight is only ever on its way out (leaving the session's
\* block, the driver's block, or in main's handler); and when main has
\* ended, either both operations returned and nothing was printed, or the
\* failed operation's error was printed and no operation was started after
\* it: if create_user_nodes did not return, create_follow_relationships was
\* never started.
C10_ErrorsPropagateWithoutRetry ==
    script = "users" =>
        /\ submitted <= 1
        /\ exc # "" => pc \in {"cun_exit", "cfr_exit", "driver_exit", "except"}
        /\ pc = "exit" =>
            /\ exc = ""
            /\ ~Assigned("created_users") =>
                  /\ batchOps = <<"create_user_nodes">>
                  /\ PrintedOneStoreError
            /\ (Assigned("created_users")
                    /\ ~Assigned("created_relationships")) =>
                  /\ batchOps = <<"create_user_nodes",
                                  "create_follow_relationships">>
                  /\ PrintedOneStoreError
            /\ Assigned("created_relationships") =>
                  /\ batchOps = <<"create_user_nodes",
                                  "create_follow_relationships">>
                  /\ printed = <<>>

\* main ended after create_user_nodes raised a store error: it was printed,
\* one query had been submitted and no second operation was started
C10_Witness ==
    /\ script = "users"
    /\ pc = "exit"
    /\ ~Assigned("created_users")
    /\ printed = <<"ServiceUnavailable">>
    /\ batchOps = <<"create_user_nodes">>
    /\ submitted = 1
    /\ session = "closed"
    /\ driver = "closed"

=============================================================================
